---- MODULE Spec2Model ----
(***************************************************************************)
(* A model of server.py of mcp-python-executor: the environment lifecycle, *)
(* the path confinement guard, the process runner and the file services,   *)
(* over an explicit filesystem.                                            *)
(*                                                                         *)
(* Strings the code inspects character by character (identifiers,          *)
(* filenames, path strings) are sequences of one-character strings; a path *)
(* is a sequence of such components.  File contents are byte strings in a  *)
(* run-length form (see Text below).  The filesystem holds no symbolic     *)
(* links, so Path.resolve() is the lexical normalisation of the path.      *)
(***************************************************************************)
EXTENDS Integers, Sequences, FiniteSets, TLC

VARIABLES
    dirs,     \* the set of existing directories (absolute paths)
    files,    \* existing regular files: absolute path -> bytes
    call,     \* the tool call served last: its name and arguments
    path,     \* what get_safe_file_path returned in that call (or NoPath)
    cmds,     \* the uv commands that call issued, in order
    result,   \* what that call returned, or the fault it raised
    rolled_back, \* history: the environment directories whose latest create_env
                 \* failed at "uv init", no create_env call having returned normally since
    deleted,     \* history: the environment directories that delete_env removed,
                 \* no create_env call for that directory having returned normally since
    environ,     \* os.environ of the server process: variable name -> value
    procs        \* the calls served at the same time, step by step: caller ->
                 \* its position in the handler, its arguments and its result

vars == <<dirs, files, call, path, cmds, result, rolled_back, deleted, environ, procs>>

--------------------------------------------------------------------------
(* Characters and strings *)

PyName == <<"m", ".", "p", "y">>
PngName == <<"p", ".", "p", "n", "g">>
DotDot == <<".", ".">>
Dot == <<".">>

\* str.isalnum(): letters and digits of any script ("E9" stands for the
\* non-ASCII letter e-acute, which Python counts as alphanumeric).
isalnum(c) == c \in {"a", "b", "e", "m", "n", "p", "s", "v", "w", "y", "g", "t", "1", "E9"}

isspace(c) == c \in {" "}

RECURSIVE lstrip(_)
lstrip(s) == IF s # <<>> /\ isspace(Head(s)) THEN lstrip(Tail(s)) ELSE s

RECURSIVE rstrip(_)
rstrip(s) ==
    IF s # <<>> /\ isspace(s[Len(s)]) THEN rstrip(SubSeq(s, 1, Len(s) - 1)) ELSE s

strip(s) == rstrip(lstrip(s))

startswith(s, prefix) ==
    Len(prefix) <= Len(s) /\ SubSeq(s, 1, Len(prefix)) = prefix

--------------------------------------------------------------------------
(* Paths (pathlib) *)

BASE_DIR == << <<"h">> >>
ENVS_DIR == BASE_DIR \o << <<"e", "n", "v", "s">> >>

\* The segments of a string between its "/" characters.
RECURSIVE SplitSlash(_, _)
SplitSlash(s, cur) ==
    IF s = <<>> THEN <<cur>>
    ELSE IF Head(s) = "/" THEN <<cur>> \o SplitSlash(Tail(s), <<>>)
    ELSE SplitSlash(Tail(s), Append(cur, Head(s)))

\* PurePath(filename): absolute or not, and its components ("" and "." dropped).
Parts(filename) ==
    [anchored |-> filename # <<>> /\ Head(filename) = "/",
     segs |-> SelectSeq(SplitSlash(filename, <<>>), LAMBDA c : c # <<>> /\ c # Dot)]

\* env_path / filename: an absolute right operand replaces the left one.
Join(base, filename) ==
    IF Parts(filename).anchored THEN Parts(filename).segs
    ELSE base \o Parts(filename).segs

\* Path.resolve() without symlinks: ".." pops a component (and stays at "/").
RECURSIVE Normalise(_, _)
Normalise(segs, acc) ==
    IF segs = <<>> THEN acc
    ELSE IF Head(segs) = DotDot
         THEN Normalise(Tail(segs), IF acc = <<>> THEN acc ELSE SubSeq(acc, 1, Len(acc) - 1))
         ELSE Normalise(Tail(segs), Append(acc, Head(segs)))

resolve(p) == Normalise(p, <<>>)

\* str(path)
RECURSIVE StrTail(_)
StrTail(p) == IF p = <<>> THEN <<>> ELSE <<"/">> \o Head(p) \o StrTail(Tail(p))

Str(p) == IF p = <<>> THEN <<"/">> ELSE StrTail(p)

parent(p) == IF p = <<>> THEN p ELSE SubSeq(p, 1, Len(p) - 1)

\* p is root or lies below root, component by component.
IsWithin(root, p) == Len(root) <= Len(p) /\ SubSeq(p, 1, Len(root)) = root

--------------------------------------------------------------------------
(* Identifier sanitizer and path confinement guard *)

Fail == [ok |-> FALSE]
Ok(v) == [ok |-> TRUE, val |-> v]

safe_id(env_id) == strip(SelectSeq(env_id, LAMBDA c : isalnum(c) \/ c \in {"-", "_"}))

get_env_path(env_id) ==
    IF safe_id(env_id) = <<>> THEN Fail ELSE Ok(Append(ENVS_DIR, safe_id(env_id)))

\* The guard without canonicalisation: the prefix test on the unresolved path.
get_safe_file_path_unresolved(env_path, filename) ==
    LET requested_path == Join(env_path, filename)
    IN  IF ~startswith(Str(requested_path), Str(resolve(env_path)))
        THEN Fail
        ELSE Ok(requested_path)

get_safe_file_path(env_path, filename) ==
    LET requested_path == resolve(Join(env_path, filename))
    IN  IF ~startswith(Str(requested_path), Str(resolve(env_path)))
        THEN Fail
        ELSE Ok(requested_path)

--------------------------------------------------------------------------
(* Text and bytes *)

\* A text is head, then pad copies of the letter "x", then tail; head and tail
\* are sequences of code points.  Bytes have the same shape over byte values.
\* With pad = 0 the tail is empty, and the filler occurs in no head or tail.
NUL == 0
LetterA == 97
EAcute == 233

Text(h, n, t) == [head |-> h, pad |-> n, tail |-> t]

len(t) == Len(t.head) + t.pad + Len(t.tail)

\* str.encode("utf-8") for code points below 2048.
RECURSIVE EncodeSeq(_)
EncodeSeq(t) ==
    IF t = <<>> THEN <<>>
    ELSE (IF Head(t) < 128 THEN <<Head(t)>>
          ELSE <<192 + (Head(t) \div 64), 128 + (Head(t) % 64)>>) \o EncodeSeq(Tail(t))

encode_utf8(t) == Text(EncodeSeq(t.head), t.pad, EncodeSeq(t.tail))

\* bytes.decode("utf-8") over one- and two-byte sequences; any other byte
\* pattern is a UnicodeDecodeError.
RECURSIVE Utf8Valid(_)
Utf8Valid(b) ==
    IF b = <<>> THEN TRUE
    ELSE IF Head(b) < 128 THEN Utf8Valid(Tail(b))
    ELSE IF Head(b) \in 194..223 /\ Len(b) >= 2 /\ b[2] \in 128..191
         THEN Utf8Valid(SubSeq(b, 3, Len(b)))
    ELSE FALSE

RECURSIVE DecodeSeq(_)
DecodeSeq(b) ==
    IF b = <<>> THEN <<>>
    ELSE IF Head(b) < 128 THEN <<Head(b)>> \o DecodeSeq(Tail(b))
    ELSE <<(Head(b) - 192) * 64 + (b[2] - 128)>> \o DecodeSeq(SubSeq(b, 3, Len(b)))

decode_utf8(b) ==
    IF Utf8Valid(b.head) /\ Utf8Valid(b.tail)
    THEN Ok(Text(DecodeSeq(b.head), b.pad, DecodeSeq(b.tail)))
    ELSE Fail

\* bytes.decode("latin-1"): byte n is code point n; never fails.
decode_latin1(b) == Text(b.head, b.pad, b.tail)

\* _read_file decoding with the wrong codec.
decode_text_latin1(data) == decode_latin1(data)

\* data.decode("utf-8") with the Latin-1 fallback of _read_file.
decode_text(data) ==
    IF decode_utf8(data).ok THEN decode_utf8(data).val ELSE decode_latin1(data)

st_size(b) == Len(b.head) + b.pad + Len(b.tail)

MaxReadSize == 10 * 1024 * 1024
ChunkSize == 1024

\* The null-byte test on the whole of the data instead of its first chunk.
null_anywhere(data) ==
    \/ \E i \in 1..Len(data.head) : data.head[i] = NUL
    \/ \E j \in 1..Len(data.tail) : data.tail[j] = NUL

\* b"\0" in data[:1024]
null_in_chunk(data) ==
    \/ \E i \in 1..Len(data.head) : i <= ChunkSize /\ data.head[i] = NUL
    \/ \E j \in 1..Len(data.tail) :
          Len(data.head) + data.pad + j <= ChunkSize /\ data.tail[j] = NUL

\* base64.b64encode(data).decode("utf-8"), kept symbolic.
b64encode(data) == [base64_of |-> data]

\* The extension of a file name: what follows its last dot (a leading dot is
\* part of the name).
suffix(name) ==
    LET dots == {i \in 2..Len(name) : name[i] = "."}
    IN  IF dots = {} THEN <<>>
        ELSE SubSeq(name, (CHOOSE i \in dots : \A j \in dots : j <= i) + 1, Len(name))

\* A media type "major/minor" is the record of its two halves; None has neither.
Mime(a, b) == [major |-> a, minor |-> b]
NoType == Mime("", "")

\* mimetypes.guess_type(path)[0] for the extensions the model uses.
guess_type(p) ==
    IF p = <<>> THEN NoType
    ELSE CASE suffix(p[Len(p)]) = <<"p", "n", "g">> -> Mime("image", "png")
           [] suffix(p[Len(p)]) = <<"p", "y">> -> Mime("text", "x-python")
           [] suffix(p[Len(p)]) = <<"t", "x", "t">> -> Mime("text", "plain")
           [] OTHER -> NoType

\* mime_type and mime_type.startswith("image/")
is_image_type(mime_type) == mime_type # NoType /\ mime_type.major = "image"

\* mime_type or default
mime_or(mime_type, default) == IF mime_type # NoType THEN mime_type ELSE default

--------------------------------------------------------------------------
(* The filesystem *)

exists(d, f, p) == p \in d \/ p \in DOMAIN f
is_dir(d, p) == p \in d
is_file(f, p) == p \in DOMAIN f

Prefixes(p) == {SubSeq(p, 1, k) : k \in 0..Len(p)}

\* Path.mkdir(parents=True, exist_ok=True): fails when a regular file is in
\* the way.
mkdir_blocked(f, p) == \E q \in Prefixes(p) : q \in DOMAIN f
mkdir_parents(d, p) == d \cup Prefixes(p)

\* Path.write_text(text): creates or truncates the file.
write_text(f, p, text) == (p :> encode_utf8(text)) @@ f

\* shutil.rmtree(p)
rmtree_dirs(d, p) == {q \in d : ~IsWithin(p, q)}
rmtree_files(f, p) == [q \in {r \in DOMAIN f : ~IsWithin(p, r)} |-> f[q]]

--------------------------------------------------------------------------
(* The process runner *)

\* What the child process does: it exits with a code, outlives the timeout,
\* or cannot be started.
Exited(rc, out, err) == [kind |-> "exit", returncode |-> rc, stdout |-> out, stderr |-> err]
TimedOut == [kind |-> "timeout"]
NotStarted == [kind |-> "fault"]

CompletedProcess(a, rc, out, err) ==
    [args |-> a, returncode |-> rc, stdout |-> out, stderr |-> err]

\* The runner without its except clauses: what subprocess reports of a child
\* it had to kill, or of one it could not start.
run_uv_command_unguarded(args, cwd, child) ==
    CASE child.kind = "exit" ->
            CompletedProcess(<<"uv">> \o args, child.returncode, child.stdout, child.stderr)
      [] child.kind = "timeout" ->
            CompletedProcess(<<"uv">> \o args, 0 - 9, "out", "")
      [] OTHER ->
            CompletedProcess(<<"uv">> \o args, 127, "", "")

run_uv_command(args, cwd, child) ==
    CASE child.kind = "exit" ->
            CompletedProcess(<<"uv">> \o args, child.returncode, child.stdout, child.stderr)
      [] child.kind = "timeout" ->
            CompletedProcess(args, 1, "", "Error: Command timed out after 300 seconds.")
      [] OTHER ->
            CompletedProcess(args, 1, "", "Error: str(e)")

\* The child's environment with only the virtualenv marker taken out.
clean_env_marker_only(env) == [v \in DOMAIN env \ {"VIRTUAL_ENV"} |-> env[v]]

\* env = os.environ.copy(), then env.pop of the three variables
clean_env(env) ==
    [v \in DOMAIN env \ {"VIRTUAL_ENV", "PYTHONPATH", "PYTHONHOME"} |-> env[v]]

\* The entry of a command in the call's log: what the runner returned, what
\* the child had done, and the environment the child was given.
Issued(res, cwd, child) ==
    [args |-> res.args, cwd |-> cwd, returncode |-> res.returncode,
     stdout |-> res.stdout, stderr |-> res.stderr, child |-> child,
     env |-> clean_env(environ)]

Verb(cmd) == IF cmd.args[1] = "uv" THEN cmd.args[2] ELSE cmd.args[1]

ProjectFile == <<"p", "y", "p", "r", "o", "j", "e", "c", "t", ".", "t", "o", "m", "l">>
ProjectText == Text(<<LetterA>>, 0, <<>>)

\* What "uv init --lib" leaves in its working directory when it exits with 0:
\* the project scaffold, of which the model keeps pyproject.toml.
uv_init_files(f, cwd, child) ==
    IF child.kind = "exit" /\ child.returncode = 0
    THEN write_text(f, Append(cwd, ProjectFile), ProjectText)
    ELSE f

--------------------------------------------------------------------------
(* Results and faults *)

NoPath == <<"none">>

Return(v) == [raised |-> FALSE, value |-> v]
Raise(t, w, i) == [raised |-> TRUE, type |-> t, what |-> w, info |-> i]

\* What a handler leaves behind: the filesystem, the confined path it
\* computed, the commands it issued and its result.
Outcome(d, f, p, c, r) == [dirs |-> d, files |-> f, path |-> p, cmds |-> c, result |-> r]

InvalidIdentifier(d, f, env_id) ==
    Outcome(d, f, NoPath, <<>>, Raise("ValueError", "InvalidIdentifier", [env_id |-> env_id]))

EnvironmentNotFound(d, f, env_id) ==
    Outcome(d, f, NoPath, <<>>, Raise("ValueError", "EnvironmentNotFound", [env_id |-> env_id]))

\* ValueError(f"Illegal filename: {filename}")
PathTraversal(filename) == Raise("ValueError", "PathTraversal", [filename |-> filename])

\* The fault of Path.mkdir / Path.write_text, if any: a regular file among the
\* parents, or a directory at the target.
WriteFault(d, f, file_path) ==
    IF mkdir_blocked(f, parent(file_path)) THEN Raise("FileExistsError", "FileExists", [at |-> parent(file_path)])
    ELSE IF is_dir(d, file_path) THEN Raise("IsADirectoryError", "IsADirectory", [at |-> file_path])
    ELSE Return("written")

--------------------------------------------------------------------------
(* Environment lifecycle *)

\* _create_env without its existence test.
create_sees_env_never(d, f, env_path) == FALSE

\* env_path.exists(), as _create_env asks it
create_sees_env(d, f, env_path) == exists(d, f, env_path)

\* A handler without its existence test (the lazy policy's slip).
env_missing_never(d, f, env_path) == FALSE

\* not env_path.exists(), as every environment-scoped handler asks it
env_missing(d, f, env_path) == ~exists(d, f, env_path)

init_failed(init_res) == init_res.returncode # 0
\* _create_env taking every add command for a success.
seed_failed_ignored(add_res) == FALSE

seed_failed(add_res) == add_res.returncode # 0
\* _execute_python ignoring the add command's exit code.
add_failed_ignored(add_res) == FALSE

add_failed(add_res) == add_res.returncode # 0
run_failed(run_res) == run_res.returncode # 0

_create_env(d, f, env_id, packages, initChild, addChild) ==
    IF ~get_env_path(env_id).ok THEN InvalidIdentifier(d, f, env_id)
    ELSE
    LET env_path == get_env_path(env_id).val
        d1 == mkdir_parents(d, env_path)
        init_res == run_uv_command(<<"init", "--lib">>, env_path, initChild)
        f1 == uv_init_files(f, env_path, initChild)
        add_res == run_uv_command(<<"add">> \o packages, env_path, addChild)
    IN  IF create_sees_env(d, f, env_path)
        THEN Outcome(d, f, NoPath, <<>>,
                     Return([status |-> "already_exists", env_id |-> env_id,
                             path |-> Str(env_path)]))
        ELSE IF init_failed(init_res)
        THEN Outcome(rmtree_dirs(d1, env_path), rmtree_files(f1, env_path), NoPath,
                     <<Issued(init_res, env_path, initChild)>>,
                     Raise("RuntimeError", "InitializationFailed",
                           [env_id |-> env_id, stderr |-> init_res.stderr]))
        ELSE IF packages # <<>> /\ seed_failed(add_res)
        THEN Outcome(d1, f1, NoPath,
                     <<Issued(init_res, env_path, initChild), Issued(add_res, env_path, addChild)>>,
                     Return([status |-> "created_with_warning", env_id |-> env_id,
                             warning |-> add_res.stderr]))
        ELSE Outcome(d1, f1, NoPath,
                     IF packages # <<>>
                     THEN <<Issued(init_res, env_path, initChild), Issued(add_res, env_path, addChild)>>
                     ELSE <<Issued(init_res, env_path, initChild)>>,
                     Return([status |-> "created", env_id |-> env_id]))

\* d.name for d in ENVS_DIR.iterdir() if d.is_dir()
env_names(d) == {q[Len(q)] : q \in {r \in d : Len(r) = Len(ENVS_DIR) + 1 /\ IsWithin(ENVS_DIR, r)}}

_delete_env(d, f, env_id) ==
    IF ~get_env_path(env_id).ok THEN InvalidIdentifier(d, f, env_id)
    ELSE
    LET env_path == get_env_path(env_id).val
    IN  IF exists(d, f, env_path) /\ is_dir(d, env_path)
        THEN Outcome(rmtree_dirs(d, env_path), rmtree_files(f, env_path), NoPath, <<>>,
                     Return([status |-> "deleted", env_id |-> env_id]))
        ELSE Outcome(d, f, NoPath, <<>>,
                     Raise("ValueError", "EnvironmentNotFound", [env_id |-> env_id]))

--------------------------------------------------------------------------
(* Code execution *)

\* _execute_python writing the file whatever the code is.
has_code_always(code) == TRUE

\* if code:
has_code(code) == len(code) > 0

\* Lines 114-136 of _execute_python: the confined file, the optional write,
\* the run and its outcome; cmdsA are the commands issued so far.
execute_file(d, f, env_id, env_path, code, filename, cmdsA, runChild) ==
    IF ~get_safe_file_path(env_path, filename).ok
    THEN Outcome(d, f, NoPath, cmdsA, PathTraversal(filename))
    ELSE
    LET file_path == get_safe_file_path(env_path, filename).val
        writes == has_code(code)
        fault == WriteFault(d, f, file_path)
        d1 == IF writes /\ ~mkdir_blocked(f, parent(file_path))
              THEN mkdir_parents(d, parent(file_path)) ELSE d
        f1 == IF writes /\ ~fault.raised THEN write_text(f, file_path, code) ELSE f
        run_res == run_uv_command(<<"run", Str(file_path)>>, env_path, runChild)
        output_data == [stdout |-> run_res.stdout, stderr |-> run_res.stderr,
                        exit_code |-> run_res.returncode]
    IN  IF writes /\ fault.raised
        THEN Outcome(d1, f1, file_path, cmdsA, fault)
        ELSE IF ~exists(d1, f1, file_path)
        THEN Outcome(d1, f1, file_path, cmdsA,
                     Raise("FileNotFoundError", "FileNotFound",
                           [filename |-> filename, env_id |-> env_id]))
        ELSE IF run_failed(run_res)
        THEN Outcome(d1, f1, file_path, Append(cmdsA, Issued(run_res, env_path, runChild)),
                     Raise("RuntimeError", "ExecutionFailed",
                           [exit_code |-> run_res.returncode, stderr |-> run_res.stderr]))
        ELSE Outcome(d1, f1, file_path, Append(cmdsA, Issued(run_res, env_path, runChild)),
                     Return(output_data))

_execute_python(d, f, env_id, code, filename, packages, addChild, runChild) ==
    IF ~get_env_path(env_id).ok THEN InvalidIdentifier(d, f, env_id)
    ELSE
    LET env_path == get_env_path(env_id).val
        add_res == run_uv_command(<<"add">> \o packages, env_path, addChild)
    IN  IF env_missing(d, f, env_path) THEN EnvironmentNotFound(d, f, env_id)
        ELSE IF packages # <<>> /\ add_failed(add_res)
        THEN Outcome(d, f, NoPath, <<Issued(add_res, env_path, addChild)>>,
                     Raise("RuntimeError", "DependencyInstallFailed",
                           [env_id |-> env_id, stderr |-> add_res.stderr]))
        ELSE execute_file(d, f, env_id, env_path, code, filename,
                          IF packages # <<>> THEN <<Issued(add_res, env_path, addChild)>> ELSE <<>>,
                          runChild)

--------------------------------------------------------------------------
(* File services *)

_write_file(d, f, env_id, filename, content) ==
    IF ~get_env_path(env_id).ok THEN InvalidIdentifier(d, f, env_id)
    ELSE
    LET env_path == get_env_path(env_id).val
        sp == get_safe_file_path(env_path, filename)
        file_path == sp.val
        fault == WriteFault(d, f, file_path)
        d1 == IF mkdir_blocked(f, parent(file_path)) THEN d
              ELSE mkdir_parents(d, parent(file_path))
    IN  IF env_missing(d, f, env_path) THEN EnvironmentNotFound(d, f, env_id)
        ELSE IF ~sp.ok
        THEN Outcome(d, f, NoPath, <<>>,
                     Raise("RuntimeError", "WriteFailed", [cause |-> PathTraversal(filename)]))
        ELSE IF fault.raised
        THEN Outcome(d1, f, file_path, <<>>,
                     Raise("RuntimeError", "WriteFailed", [cause |-> fault]))
        ELSE Outcome(d1, write_text(f, file_path, content), file_path, <<>>,
                     Return([status |-> "success", filename |-> filename,
                             bytes_written |-> len(content)]))

\* Lines 170-208 of _read_file: the classification of the bytes read.
read_result(filename, file_path, data) ==
    LET mime_type == guess_type(file_path)
        is_image == is_image_type(mime_type)
        is_binary == ~is_image /\ null_in_chunk(data)
    IN  IF is_image
        THEN [type |-> "image", data |-> b64encode(data),
              mimeType |-> mime_or(mime_type, Mime("image", "png"))]
        ELSE IF is_binary
        THEN [filename |-> filename, type |-> "binary",
              mime_type |-> mime_or(mime_type, Mime("application", "octet-stream")),
              content |-> b64encode(data)]
        ELSE [filename |-> filename, type |-> "text",
              mime_type |-> mime_or(mime_type, Mime("text", "plain")),
              content |-> decode_text(data)]

\* The size test with the limit itself refused.
too_large_inclusive(file_size) == file_size >= MaxReadSize

\* file_size > 10 * 1024 * 1024
too_large(file_size) == file_size > MaxReadSize

\* st_size of a directory: one block.
DirSize == 4 * 1024

_read_file(d, f, env_id, filename) ==
    IF ~get_env_path(env_id).ok THEN InvalidIdentifier(d, f, env_id)
    ELSE
    LET env_path == get_env_path(env_id).val
        sp == get_safe_file_path(env_path, filename)
        file_path == sp.val
        file_size == IF is_file(f, file_path) THEN st_size(f[file_path]) ELSE DirSize
    IN  IF env_missing(d, f, env_path) THEN EnvironmentNotFound(d, f, env_id)
        ELSE IF ~sp.ok THEN Outcome(d, f, NoPath, <<>>, PathTraversal(filename))
        ELSE IF ~exists(d, f, file_path)
        THEN Outcome(d, f, file_path, <<>>,
                     Raise("FileNotFoundError", "FileNotFound", [filename |-> filename]))
        ELSE IF too_large(file_size)
        THEN Outcome(d, f, file_path, <<>>,
                     Raise("RuntimeError", "FileTooLarge",
                           [filename |-> filename, file_size |-> file_size]))
        ELSE IF is_dir(d, file_path)
        THEN Outcome(d, f, file_path, <<>>,
                     Raise("RuntimeError", "ReadFailed",
                           [cause |-> Raise("IsADirectoryError", "IsADirectory",
                                            [at |-> file_path])]))
        ELSE Outcome(d, f, file_path, <<>>,
                     Return(read_result(filename, file_path, f[file_path])))

_get_file_path(d, f, env_id, filename) ==
    IF ~get_env_path(env_id).ok THEN InvalidIdentifier(d, f, env_id)
    ELSE
    LET env_path == get_env_path(env_id).val
        sp == get_safe_file_path(env_path, filename)
        file_path == sp.val
    IN  IF env_missing(d, f, env_path) THEN EnvironmentNotFound(d, f, env_id)
        ELSE IF ~sp.ok
        THEN Outcome(d, f, NoPath, <<>>,
                     Raise("RuntimeError", "GetFilePathFailed",
                           [cause |-> PathTraversal(filename)]))
        ELSE IF ~exists(d, f, file_path)
        THEN Outcome(d, f, file_path, <<>>,
                     Raise("RuntimeError", "GetFilePathFailed",
                           [cause |-> Raise("FileNotFoundError", "FileNotFound",
                                            [filename |-> filename])]))
        ELSE Outcome(d, f, file_path, <<>>,
                     Return([filename |-> filename, absolute_path |-> Str(file_path)]))

\* ord(c) for the characters of the model's names.
Ord(c) ==
    CASE c = " " -> 32 [] c = "!" -> 33 [] c = "-" -> 45 [] c = "." -> 46
      [] c = "/" -> 47 [] c = "1" -> 49 [] c = "_" -> 95 [] c = "a" -> 97
      [] c = "b" -> 98 [] c = "c" -> 99 [] c = "e" -> 101 [] c = "g" -> 103
      [] c = "h" -> 104 [] c = "i" -> 105 [] c = "j" -> 106 [] c = "l" -> 108
      [] c = "m" -> 109 [] c = "n" -> 110 [] c = "o" -> 111 [] c = "p" -> 112
      [] c = "r" -> 114 [] c = "s" -> 115 [] c = "t" -> 116 [] c = "v" -> 118
      [] c = "w" -> 119 [] c = "y" -> 121 [] c = "E9" -> 233

\* s < t for Python strings
RECURSIVE str_lt(_, _)
str_lt(s, t) ==
    IF t = <<>> THEN FALSE
    ELSE IF s = <<>> THEN TRUE
    ELSE IF Head(s) = Head(t) THEN str_lt(Tail(s), Tail(t))
    ELSE Ord(Head(s)) < Ord(Head(t))

RECURSIVE SetToSeq(_)
SetToSeq(S) ==
    IF S = {} THEN <<>>
    ELSE LET x == CHOOSE y \in S : TRUE IN <<x>> \o SetToSeq(S \ {x})

\* sorted(names)
sorted(S) == SortSeq(SetToSeq(S), str_lt)

\* str(p.relative_to(env_path))
relative_str(env_path, p) == Tail(StrTail(SubSeq(p, Len(env_path) + 1, Len(p))))

\* The sort of _list_files by path string alone.
files_lt_by_string(env_path, p, q) ==
    str_lt(relative_str(env_path, p), relative_str(env_path, q))

\* The sort key (len(Path(p).parts), p) of _list_files, on relative paths.
files_lt(env_path, p, q) ==
    \/ Len(p) < Len(q)
    \/ Len(p) = Len(q) /\ str_lt(relative_str(env_path, p), relative_str(env_path, q))

\* ".venv" in p.parts or ".git" in p.parts, p being the absolute path
Hidden(env_path, p) ==
    \E i \in 1..Len(p) :
        p[i] \in {<<".", "v", "e", "n", "v">>, <<".", "g", "i", "t">>}

_list_files(d, f, env_id) ==
    IF ~get_env_path(env_id).ok THEN InvalidIdentifier(d, f, env_id)
    ELSE
    LET env_path == get_env_path(env_id).val
        found == {p \in DOMAIN f :
                     IsWithin(env_path, p) /\ p # env_path /\ ~Hidden(env_path, p)}
        ordered == SortSeq(SetToSeq(found), LAMBDA p, q : files_lt(env_path, p, q))
    IN  IF env_missing(d, f, env_path) THEN EnvironmentNotFound(d, f, env_id)
        ELSE Outcome(d, f, NoPath, <<>>,
                     Return([env_id |-> env_id,
                             files |-> [i \in 1..Len(ordered) |->
                                           relative_str(env_path, ordered[i])]]))

_list_envs(d, f) ==
    IF ~exists(d, f, ENVS_DIR) THEN Outcome(d, f, NoPath, <<>>, Return([environments |-> <<>>]))
    ELSE Outcome(d, f, NoPath, <<>>, Return([environments |-> sorted(env_names(d))]))

--------------------------------------------------------------------------
(* Package manager facade *)

_install_packages(d, f, env_id, packages, child) ==
    IF ~get_env_path(env_id).ok THEN InvalidIdentifier(d, f, env_id)
    ELSE
    LET env_path == get_env_path(env_id).val
        res == run_uv_command(<<"add">> \o packages, env_path, child)
    IN  IF env_missing(d, f, env_path) THEN EnvironmentNotFound(d, f, env_id)
        ELSE IF res.returncode = 0
        THEN Outcome(d, f, NoPath, <<Issued(res, env_path, child)>>,
                     Return([status |-> "success", env_id |-> env_id, installed |-> packages]))
        ELSE Outcome(d, f, NoPath, <<Issued(res, env_path, child)>>,
                     Raise("RuntimeError", "DependencyInstallFailed", [stderr |-> res.stderr]))

_remove_packages(d, f, env_id, packages, child) ==
    IF ~get_env_path(env_id).ok THEN InvalidIdentifier(d, f, env_id)
    ELSE
    LET env_path == get_env_path(env_id).val
        res == run_uv_command(<<"remove">> \o packages, env_path, child)
    IN  IF env_missing(d, f, env_path) THEN EnvironmentNotFound(d, f, env_id)
        ELSE IF res.returncode = 0
        THEN Outcome(d, f, NoPath, <<Issued(res, env_path, child)>>,
                     Return([status |-> "success", env_id |-> env_id, removed |-> packages]))
        ELSE Outcome(d, f, NoPath, <<Issued(res, env_path, child)>>,
                     Raise("RuntimeError", "DependencyRemoveFailed", [stderr |-> res.stderr]))

\* json.loads(stdout) succeeds on the JSON the model's children print.
is_json(stdout) == stdout = "[]"

_list_packages(d, f, env_id, child) ==
    IF ~get_env_path(env_id).ok THEN InvalidIdentifier(d, f, env_id)
    ELSE
    LET env_path == get_env_path(env_id).val
        res == run_uv_command(<<"pip", "list", "--format", "json">>, env_path, child)
    IN  IF env_missing(d, f, env_path) THEN EnvironmentNotFound(d, f, env_id)
        ELSE IF res.returncode = 0 /\ is_json(res.stdout)
        THEN Outcome(d, f, NoPath, <<Issued(res, env_path, child)>>,
                     Return([env_id |-> env_id, packages |-> res.stdout]))
        ELSE IF res.returncode = 0
        THEN Outcome(d, f, NoPath, <<Issued(res, env_path, child)>>,
                     Raise("RuntimeError", "PackageListParseFailed", [stdout |-> res.stdout]))
        ELSE Outcome(d, f, NoPath, <<Issued(res, env_path, child)>>,
                     Raise("RuntimeError", "PackageListFailed", [stderr |-> res.stderr]))

--------------------------------------------------------------------------
(* The callers' inputs *)

IdA == <<"a">>
IdABang == <<"a", "!">>
IdAB == <<"a", "b">>
IdBang == <<"!">>
Ids == {IdA, IdABang, IdAB, IdBang}

SiblingName == <<".", ".", "/", "a", "b", "/", "m", ".", "p", "y">>
BackName == <<"s", "/", ".", ".", "/", "m", ".", "p", "y">>
OutsideName == <<".", ".", "/", "o", ".", "p", "y">>
AbsName == <<"/", "e", "t", "c", "/", "p", "w">>
Filenames == {PyName, PngName, SiblingName, BackName, OutsideName, AbsName}

NoCode == Text(<<>>, 0, <<>>)
PlainText == Text(<<LetterA>>, 0, <<>>)
AccentText == Text(<<EAcute>>, 0, <<>>)
NulText == Text(<<LetterA, NUL>>, 0, <<>>)
BigText == Text(<<LetterA>>, MaxReadSize, <<>>)

\* write_file(filename, content) argument pairs
Writes ==
    ({PyName} \X {AccentText, NulText, BigText})
        \cup ({PngName, SiblingName, BackName, OutsideName, AbsName} \X {AccentText})

\* execute_python(code, filename) argument pairs
Executions ==
    ({PyName} \X {NoCode, PlainText})
        \cup ({SiblingName, OutsideName} \X {PlainText})

\* The longest package list a caller passes.
MaxPackages == 1

NoPackages == <<>>
PackageLists == {[i \in 1..n |-> "pkg"] : n \in 0..MaxPackages}
SomePackages == PackageLists \ {NoPackages}

Children == {Exited(0, "out", ""), Exited(2, "out", "err"), TimedOut, NotStarted}
PipChildren == Children \cup {Exited(0, "[]", "")}

\* A child that is only spawned for a non-empty package list.
AddChildren(packages) == IF packages = NoPackages THEN {TimedOut} ELSE Children

EtcDir == << <<"e", "t", "c">> >>
EtcFile == EtcDir \o << <<"p", "w">> >>

--------------------------------------------------------------------------
(* The state machine: one action per tool call *)
(* The server serves one call at a time (a synchronous request and         *)
(* response): a tool action runs its whole handler and leaves the call's   *)
(* record in call, path, cmds and result; respond hands the result to the  *)
(* caller, after which the next call is taken.                             *)

Call(op, env_id, filename, content, packages) ==
    [op |-> op, env_id |-> env_id, filename |-> filename, content |-> content,
     packages |-> packages]

NoCall == Call("none", <<>>, <<>>, NoCode, NoPackages)
Idle == call = NoCall

Serve(c, o) ==
    /\ Idle
    /\ call' = c
    /\ dirs' = o.dirs
    /\ files' = o.files
    /\ path' = o.path
    /\ cmds' = o.cmds
    /\ result' = o.result
    /\ environ' = environ
    /\ procs' = procs

\* The number of calls served at the same time.
NumCallers == 2
Callers == 1..NumCallers

\* A caller: where its call stands (idle, a line of the handler, done), the
\* call's arguments and, once done, what it returned or raised.
Caller(pc, op, packages, filename, content, res) ==
    [pc |-> pc, op |-> op, packages |-> packages, filename |-> filename,
     content |-> content, result |-> res]

IdleCaller == Caller("idle", "none", NoPackages, <<>>, NoCode, Return("none"))
NoCallers == [p \in Callers |-> IdleCaller]

\* The variables a server started from its own virtualenv has.
EnvNames == {"PATH", "VIRTUAL_ENV", "PYTHONPATH", "PYTHONHOME", "PYTHONUNBUFFERED"}
ServerEnviron == [v \in EnvNames |-> "set"]

Init ==
    /\ dirs = {<<>>, BASE_DIR, ENVS_DIR, EtcDir}
    /\ files = (EtcFile :> encode_utf8(PlainText))
    /\ call = NoCall
    /\ path = NoPath
    /\ cmds = <<>>
    /\ result = Return("none")
    /\ rolled_back = {}
    /\ deleted = {}
    /\ environ = ServerEnviron
    /\ procs = NoCallers

\* The history of create_env outcomes per environment directory.
RolledBackAfter(o, env_id) ==
    IF ~get_env_path(env_id).ok THEN rolled_back
    ELSE IF o.result.raised /\ o.result.what = "InitializationFailed"
         THEN rolled_back \cup {get_env_path(env_id).val}
    ELSE IF ~o.result.raised THEN {}
    ELSE rolled_back

\* The directories deleted and not created again.
DeletedAfterCreate(o, env_id) ==
    IF get_env_path(env_id).ok /\ ~o.result.raised
    THEN deleted \ {get_env_path(env_id).val}
    ELSE deleted

DeletedAfterDelete(o, env_id) ==
    IF get_env_path(env_id).ok /\ ~o.result.raised
    THEN deleted \cup {get_env_path(env_id).val}
    ELSE deleted

create_env ==
    \E env_id \in Ids, packages \in PackageLists, initChild \in Children :
        \E addChild \in AddChildren(packages) :
            LET o == _create_env(dirs, files, env_id, packages, initChild, addChild)
            IN  /\ Serve(Call("create_env", env_id, <<>>, NoCode, packages), o)
                /\ rolled_back' = RolledBackAfter(o, env_id)
                /\ deleted' = DeletedAfterCreate(o, env_id)

execute_python ==
    \E env_id \in Ids, x \in Executions, packages \in PackageLists, runChild \in Children :
        \E addChild \in AddChildren(packages) :
            /\ Serve(Call("execute_python", env_id, x[1], x[2], packages),
                     _execute_python(dirs, files, env_id, x[2], x[1], packages, addChild, runChild))
            /\ UNCHANGED <<rolled_back, deleted>>

write_file ==
    \E env_id \in Ids, w \in Writes :
        /\ Serve(Call("write_file", env_id, w[1], w[2], NoPackages),
                 _write_file(dirs, files, env_id, w[1], w[2]))
        /\ UNCHANGED <<rolled_back, deleted>>

read_file ==
    \E env_id \in Ids, filename \in Filenames :
        /\ Serve(Call("read_file", env_id, filename, NoCode, NoPackages),
                 _read_file(dirs, files, env_id, filename))
        /\ UNCHANGED <<rolled_back, deleted>>

list_files ==
    \E env_id \in Ids :
        /\ Serve(Call("list_files", env_id, <<>>, NoCode, NoPackages),
                 _list_files(dirs, files, env_id))
        /\ UNCHANGED <<rolled_back, deleted>>

get_file_path ==
    \E env_id \in Ids, filename \in Filenames :
        /\ Serve(Call("get_file_path", env_id, filename, NoCode, NoPackages),
                 _get_file_path(dirs, files, env_id, filename))
        /\ UNCHANGED <<rolled_back, deleted>>

install_packages ==
    \E env_id \in Ids, packages \in SomePackages, child \in Children :
        /\ Serve(Call("install_packages", env_id, <<>>, NoCode, packages),
                 _install_packages(dirs, files, env_id, packages, child))
        /\ UNCHANGED <<rolled_back, deleted>>

remove_packages ==
    \E env_id \in Ids, packages \in SomePackages, child \in Children :
        /\ Serve(Call("remove_packages", env_id, <<>>, NoCode, packages),
                 _remove_packages(dirs, files, env_id, packages, child))
        /\ UNCHANGED <<rolled_back, deleted>>

list_packages ==
    \E env_id \in Ids, child \in PipChildren :
        /\ Serve(Call("list_packages", env_id, <<>>, NoCode, NoPackages),
                 _list_packages(dirs, files, env_id, child))
        /\ UNCHANGED <<rolled_back, deleted>>

list_envs ==
    /\ Serve(Call("list_envs", <<>>, <<>>, NoCode, NoPackages), _list_envs(dirs, files))
    /\ UNCHANGED <<rolled_back, deleted>>

delete_env ==
    \E env_id \in Ids :
        LET o == _delete_env(dirs, files, env_id)
        IN  /\ Serve(Call("delete_env", env_id, <<>>, NoCode, NoPackages), o)
            /\ deleted' = DeletedAfterDelete(o, env_id)
            /\ UNCHANGED rolled_back

\* The result goes back to the caller.
respond ==
    /\ ~Idle
    /\ call' = NoCall
    /\ path' = NoPath
    /\ cmds' = <<>>
    /\ result' = Return("none")
    /\ UNCHANGED <<dirs, files, rolled_back, deleted, environ, procs>>

Next ==
    \/ create_env
    \/ execute_python
    \/ write_file
    \/ read_file
    \/ list_files
    \/ get_file_path
    \/ install_packages
    \/ remove_packages
    \/ list_packages
    \/ list_envs
    \/ delete_env
    \/ respond

Spec == Init /\ [][Next]_vars

--------------------------------------------------------------------------
(* Reading files of any content *)
(* The tools write text only; files of other bytes are put into an         *)
(* environment's directory by the programs run there and, in the tests, by *)
(* the test itself.  This second state machine lets such a writer store    *)
(* bytes in the environment "a" and reads them back with read_file.        *)

PlainBytes == Text(<<LetterA>>, 0, <<>>)
NoBytes == Text(<<>>, 0, <<>>)
Latin1Bytes == Text(<<EAcute>>, 0, <<>>)
NulBytes == Text(<<NUL, LetterA>>, 0, <<>>)
EdgeNulBytes == Text(<<>>, ChunkSize - 1, <<NUL>>)
LateNulBytes == Text(<<>>, ChunkSize, <<NUL>>)
MaxBytes == Text(<<>>, MaxReadSize, <<>>)
OverBytes == Text(<<LetterA>>, MaxReadSize, <<>>)

StoredBytes ==
    {PlainBytes, NoBytes, Latin1Bytes, NulBytes, EdgeNulBytes, LateNulBytes,
     MaxBytes, OverBytes}
StoredNames == {PyName, PngName}
StoreIds == {IdA}

\* open(env_path / name, "wb").write(data)
store_bytes ==
    \E env_id \in StoreIds, name \in StoredNames, data \in StoredBytes :
        /\ Idle
        /\ is_dir(dirs, get_env_path(env_id).val)
        /\ ~is_dir(dirs, Append(get_env_path(env_id).val, name))
        /\ files' = (Append(get_env_path(env_id).val, name) :> data) @@ files
        /\ UNCHANGED <<dirs, call, path, cmds, result, rolled_back, deleted, environ, procs>>

NextRead ==
    \/ create_env
    \/ store_bytes
    \/ read_file
    \/ respond

SpecRead == Init /\ [][NextRead]_vars

--------------------------------------------------------------------------
(* Listing nested and hidden files *)
(* write_file with names that lie at several depths, some of them below a  *)
(* ".venv" or ".git" directory, and list_files over the result.            *)

TopName == <<"t", ".", "p", "y">>
SubName == <<"s", "/", "b", ".", "p", "y">>
DeepName == <<"s", "/", "t", "/", "c", ".", "p", "y">>
VenvName == <<".", "v", "e", "n", "v", "/", "c", ".", "p", "y">>
GitName == <<".", "g", "i", "t", "/", "c">>
SubGitName == <<"s", "/", ".", "g", "i", "t", "/", "c">>
ListNames == {PyName, TopName, SubName, DeepName, VenvName, GitName, SubGitName}

write_nested ==
    \E env_id \in StoreIds, filename \in ListNames :
        /\ Serve(Call("write_file", env_id, filename, PlainText, NoPackages),
                 _write_file(dirs, files, env_id, filename, PlainText))
        /\ UNCHANGED <<rolled_back, deleted>>

NextList ==
    \/ create_env
    \/ write_nested
    \/ list_files
    \/ respond

SpecList == Init /\ [][NextList]_vars

--------------------------------------------------------------------------
(* Executing files of several names *)
(* execute_python with and without code, on names whose target is free, is *)
(* a file, is a directory (".", and "s" once s/b.py is written) or lies     *)
(* below a regular file ("m.py/c.py" once m.py is written).                *)

HereName == <<".">>
DirName == <<"s">>
BelowFileName == <<"m", ".", "p", "y", "/", "c", ".", "p", "y">>
ExecNames == {PyName, SubName, HereName, DirName, BelowFileName}
ExecCodes == {NoCode, PlainText, AccentText}

execute_named ==
    \E env_id \in StoreIds, filename \in ExecNames, code \in ExecCodes :
        \E packages \in PackageLists, runChild \in Children :
            \E addChild \in AddChildren(packages) :
                /\ Serve(Call("execute_python", env_id, filename, code, packages),
                         _execute_python(dirs, files, env_id, code, filename, packages,
                                         addChild, runChild))
                /\ UNCHANGED <<rolled_back, deleted>>

NextExec ==
    \/ create_env
    \/ execute_named
    \/ respond

SpecExec == Init /\ [][NextExec]_vars

--------------------------------------------------------------------------
(* The server's process environment *)
(* The server may be started with any of the variables set or unset, and   *)
(* with either of two search paths; the calls that issue commands are run  *)
(* from each such start.                                                   *)

EnvValues(v) == IF v = "PATH" THEN {"/bin", "/usr/bin"} ELSE {"set"}

Environs ==
    UNION {{e \in [names -> {"/bin", "/usr/bin", "set"}] :
               \A v \in names : e[v] \in EnvValues(v)} : names \in SUBSET EnvNames}

InitEnv ==
    /\ dirs = {<<>>, BASE_DIR, ENVS_DIR, EtcDir}
    /\ files = (EtcFile :> encode_utf8(PlainText))
    /\ call = NoCall
    /\ path = NoPath
    /\ cmds = <<>>
    /\ result = Return("none")
    /\ rolled_back = {}
    /\ deleted = {}
    /\ environ \in Environs
    /\ procs = NoCallers

NextEnv ==
    \/ create_env
    \/ install_packages
    \/ list_packages
    \/ respond

SpecEnv == InitEnv /\ [][NextEnv]_vars

--------------------------------------------------------------------------
(* The identifier sanitizer on its own *)
(* get_env_path applied to every string over a small alphabet: two ASCII   *)
(* alphanumerics, the two admitted marks, a punctuation mark, a blank and  *)
(* a non-ASCII letter.                                                     *)

MaxIdLen == 3
IdChars == {"a", "1", "-", "_", "!", " ", "E9"}
IdStrings == UNION {[1..n -> IdChars] : n \in 0..MaxIdLen}

sanitize ==
    \E env_id \in IdStrings :
        /\ Idle
        /\ call' = Call("get_env_path", env_id, <<>>, NoCode, NoPackages)
        /\ result' = IF get_env_path(env_id).ok
                     THEN Return(get_env_path(env_id).val)
                     ELSE Raise("ValueError", "InvalidIdentifier", [env_id |-> env_id])
        /\ UNCHANGED <<dirs, files, path, cmds, rolled_back, deleted, environ, procs>>

NextIds ==
    \/ sanitize
    \/ respond

SpecIds == Init /\ [][NextIds]_vars

--------------------------------------------------------------------------
(* Calls served at the same time *)
(* The handlers take no lock, so the calls of several callers on one       *)
(* environment interleave line by line; the filesystem is all they share.  *)
(* Each action below is one line (or one filesystem or process operation)  *)
(* of a handler, taken by one caller.                                      *)

RaceId == IdA
RacePath == get_env_path(RaceId).val

At(p, op, pc) == procs[p].op = op /\ procs[p].pc = pc

Goto(p, pc) == procs' = [procs EXCEPT ![p].pc = pc]

Done(p, res) == procs' = [procs EXCEPT ![p].pc = "done", ![p].result = res]

\* A child whose working directory is gone cannot be started.
ChildrenIn(d, cwd) == IF is_dir(d, cwd) THEN Children ELSE {NotStarted}

\* _create_env, lines 74-76: the call arrives and tests env_path.exists().
cr_exists(p) ==
    /\ procs[p].pc = "idle"
    /\ \E packages \in PackageLists :
          procs' = [procs EXCEPT ![p] =
              IF create_sees_env(dirs, files, RacePath)
              THEN Caller("done", "create_env", packages, <<>>, NoCode,
                          Return([status |-> "already_exists", env_id |-> RaceId,
                                  path |-> Str(RacePath)]))
              ELSE Caller("mkdir", "create_env", packages, <<>>, NoCode, Return("none"))]
    /\ UNCHANGED <<dirs, files, call, path, cmds, result, rolled_back, deleted, environ>>

\* line 78: env_path.mkdir(parents=True, exist_ok=True)
cr_mkdir(p) ==
    /\ At(p, "create_env", "mkdir")
    /\ dirs' = mkdir_parents(dirs, RacePath)
    /\ Goto(p, "init")
    /\ UNCHANGED <<files, call, path, cmds, result, rolled_back, deleted, environ>>

\* lines 79-80: "uv init --lib" runs in the directory and its exit code is
\* tested.
cr_init(p) ==
    /\ At(p, "create_env", "init")
    /\ \E child \in ChildrenIn(dirs, RacePath) :
          LET init_res == run_uv_command(<<"init", "--lib">>, RacePath, child)
          IN  /\ files' = uv_init_files(files, RacePath, child)
              /\ IF init_failed(init_res)
                 THEN procs' = [procs EXCEPT ![p].pc = "rollback",
                                              ![p].result = Return(init_res.stderr)]
                 ELSE IF procs[p].packages # <<>> THEN Goto(p, "add")
                 ELSE Done(p, Return([status |-> "created", env_id |-> RaceId]))
    /\ UNCHANGED <<dirs, call, path, cmds, result, rolled_back, deleted, environ>>

\* lines 82-83: shutil.rmtree(env_path), which fails on a directory that is
\* no longer there, then the initialization fault.
cr_rollback(p) ==
    /\ At(p, "create_env", "rollback")
    /\ dirs' = rmtree_dirs(dirs, RacePath)
    /\ files' = rmtree_files(files, RacePath)
    /\ IF is_dir(dirs, RacePath)
       THEN Done(p, Raise("RuntimeError", "InitializationFailed",
                          [env_id |-> RaceId, stderr |-> procs[p].result.value]))
       ELSE Done(p, Raise("FileNotFoundError", "FileNotFound", [at |-> RacePath]))
    /\ UNCHANGED <<call, path, cmds, result, rolled_back, deleted, environ>>

\* lines 85-94: the packages are added and the call returns.
cr_add(p) ==
    /\ At(p, "create_env", "add")
    /\ \E child \in ChildrenIn(dirs, RacePath) :
          LET add_res == run_uv_command(<<"add">> \o procs[p].packages, RacePath, child)
          IN  IF seed_failed(add_res)
              THEN Done(p, Return([status |-> "created_with_warning", env_id |-> RaceId,
                                   warning |-> add_res.stderr]))
              ELSE Done(p, Return([status |-> "created", env_id |-> RaceId]))
    /\ UNCHANGED <<dirs, files, call, path, cmds, result, rolled_back, deleted, environ>>

NextCreateRace ==
    \E p \in Callers :
        \/ cr_exists(p)
        \/ cr_mkdir(p)
        \/ cr_init(p)
        \/ cr_rollback(p)
        \/ cr_add(p)

SpecCreateRace == Init /\ [][NextCreateRace]_vars

\* The callers of the delete race find the environment created: the state
\* create_env leaves when "uv init" has exited with 0.
Created == _create_env({<<>>, BASE_DIR, ENVS_DIR, EtcDir}, (EtcFile :> encode_utf8(PlainText)),
                       RaceId, NoPackages, Exited(0, "out", ""), TimedOut)

InitCreated ==
    /\ environ = ServerEnviron
    /\ dirs = Created.dirs
    /\ files = Created.files
    /\ call = NoCall
    /\ path = NoPath
    /\ cmds = <<>>
    /\ result = Return("none")
    /\ rolled_back = {}
    /\ deleted = {}
    /\ procs = NoCallers

RaceNames == {PyName, SubName}

\* The confined path of a caller's filename.
RaceFile(p) == get_safe_file_path(RacePath, procs[p].filename).val

\* _delete_env, lines 296-297: the call arrives and tests the directory.
dl_exists(p) ==
    /\ procs[p].pc = "idle"
    /\ procs' = [procs EXCEPT ![p] =
          IF exists(dirs, files, RacePath) /\ is_dir(dirs, RacePath)
          THEN Caller("rmtree", "delete_env", NoPackages, <<>>, NoCode, Return("none"))
          ELSE Caller("done", "delete_env", NoPackages, <<>>, NoCode,
                      Raise("ValueError", "EnvironmentNotFound", [env_id |-> RaceId]))]
    /\ UNCHANGED <<dirs, files, call, path, cmds, result, rolled_back, deleted, environ>>

\* lines 298-299: shutil.rmtree(env_path), then the answer.
dl_rmtree(p) ==
    /\ At(p, "delete_env", "rmtree")
    /\ dirs' = rmtree_dirs(dirs, RacePath)
    /\ files' = rmtree_files(files, RacePath)
    /\ IF is_dir(dirs, RacePath)
       THEN Done(p, Return([status |-> "deleted", env_id |-> RaceId]))
       ELSE Done(p, Raise("FileNotFoundError", "FileNotFound", [at |-> RacePath]))
    /\ UNCHANGED <<call, path, cmds, result, rolled_back, deleted, environ>>

\* _write_file, lines 140-142, and _execute_python with code, lines 103-107:
\* the call arrives and tests env_path.exists().
wr_exists(p) ==
    /\ procs[p].pc = "idle"
    /\ \E op \in {"write_file", "execute_python"}, filename \in RaceNames :
          procs' = [procs EXCEPT ![p] =
              IF env_missing(dirs, files, RacePath)
              THEN Caller("done", op, NoPackages, filename, PlainText,
                          Raise("ValueError", "EnvironmentNotFound", [env_id |-> RaceId]))
              ELSE Caller("mkdir", op, NoPackages, filename, PlainText, Return("none"))]
    /\ UNCHANGED <<dirs, files, call, path, cmds, result, rolled_back, deleted, environ>>

\* lines 145-146 and 114-117: the path is confined and
\* file_path.parent.mkdir(parents=True, exist_ok=True) makes what is missing.
wr_mkdir(p) ==
    /\ procs[p].op \in {"write_file", "execute_python"}
    /\ procs[p].pc = "mkdir"
    /\ dirs' = mkdir_parents(dirs, parent(RaceFile(p)))
    /\ Goto(p, "write")
    /\ UNCHANGED <<files, call, path, cmds, result, rolled_back, deleted, environ>>

\* lines 147-148 and 118: file_path.write_text(...), which fails when the
\* parent directory is gone; write_file wraps the fault and returns,
\* execute_python goes on to the run.
wr_write(p) ==
    /\ procs[p].op \in {"write_file", "execute_python"}
    /\ procs[p].pc = "write"
    /\ IF ~is_dir(dirs, parent(RaceFile(p)))
       THEN /\ files' = files
            /\ Done(p, IF procs[p].op = "write_file"
                       THEN Raise("RuntimeError", "WriteFailed",
                                  [cause |-> Raise("FileNotFoundError", "FileNotFound",
                                                   [at |-> RaceFile(p)])])
                       ELSE Raise("FileNotFoundError", "FileNotFound", [at |-> RaceFile(p)]))
       ELSE /\ files' = write_text(files, RaceFile(p), procs[p].content)
            /\ IF procs[p].op = "write_file"
               THEN Done(p, Return([status |-> "success", filename |-> procs[p].filename,
                                    bytes_written |-> len(procs[p].content)]))
               ELSE Goto(p, "run")
    /\ UNCHANGED <<dirs, call, path, cmds, result, rolled_back, deleted, environ>>

\* _execute_python, lines 120-136: the file is looked up and run.
ex_run(p) ==
    /\ At(p, "execute_python", "run")
    /\ IF ~exists(dirs, files, RaceFile(p))
       THEN Done(p, Raise("FileNotFoundError", "FileNotFound",
                          [filename |-> procs[p].filename, env_id |-> RaceId]))
       ELSE \E child \in ChildrenIn(dirs, RacePath) :
               LET run_res == run_uv_command(<<"run", Str(RaceFile(p))>>, RacePath, child)
               IN  IF run_failed(run_res)
                   THEN Done(p, Raise("RuntimeError", "ExecutionFailed",
                                      [exit_code |-> run_res.returncode,
                                       stderr |-> run_res.stderr]))
                   ELSE Done(p, Return([stdout |-> run_res.stdout, stderr |-> run_res.stderr,
                                        exit_code |-> run_res.returncode]))
    /\ UNCHANGED <<dirs, files, call, path, cmds, result, rolled_back, deleted, environ>>

NextDeleteRace ==
    \E p \in Callers :
        \/ dl_exists(p)
        \/ dl_rmtree(p)
        \/ wr_exists(p)
        \/ wr_mkdir(p)
        \/ wr_write(p)
        \/ ex_run(p)

SpecDeleteRace == InitCreated /\ [][NextDeleteRace]_vars

--------------------------------------------------------------------------
(* Properties *)

FileOps == {"execute_python", "write_file", "read_file", "get_file_path"}

ScopedOps ==
    {"execute_python", "write_file", "read_file", "list_files", "get_file_path",
     "install_packages", "remove_packages", "list_packages"}

\* The environment directory the call in progress addresses.
CallEnv == get_env_path(call.env_id).val

HasDotDot(filename) == \E i \in 1..Len(Parts(filename).segs) : Parts(filename).segs[i] = DotDot

\* The files a step created or overwrote.
Touched == {p \in DOMAIN files' : p \notin DOMAIN files \/ files'[p] # files[p]}

\* C1 (path confinement): whenever get_safe_file_path returned a path in a
\* write_file, read_file, get_file_path or execute_python call, that path is
\* the addressed environment's root or lies below it component by component,
\* and every file the call created or overwrote lies below that root.
C1_PathConfinement ==
    [][(call'.op \in FileOps /\ get_env_path(call'.env_id).ok)
          => /\ path' # NoPath => IsWithin(get_env_path(call'.env_id).val, path')
             /\ \A p \in Touched : IsWithin(get_env_path(call'.env_id).val, p)]_vars

GuardRan ==
    /\ call.op \in FileOps
    /\ ~(result.raised /\ result.what \in
            {"InvalidIdentifier", "EnvironmentNotFound", "DependencyInstallFailed"})

IsPathTraversal(r) ==
    /\ r.raised
    /\ \/ r.what = "PathTraversal"
       \/ r.what \in {"WriteFailed", "GetFilePathFailed"} /\ r.info.cause.what = "PathTraversal"

C3_IdentifierInjective ==
    (call.op \in ScopedOps \cup {"create_env", "delete_env"} /\ get_env_path(call.env_id).ok)
        => \A other \in Ids :
              (other # call.env_id /\ get_env_path(other).ok)
                  => get_env_path(other).val # CallEnv

\* C4 (creation rollback): between calls, a directory whose latest create_env
\* failed at initialization does not exist and is not listed by list_envs.
C4_RolledBackStaysAbsent ==
    Idle => \A p \in rolled_back :
               /\ ~exists(dirs, files, p)
               /\ \A i \in DOMAIN _list_envs(dirs, files).result.value.environments :
                     _list_envs(dirs, files).result.value.environments[i] # p[Len(p)]


CreatedHere ==
    /\ call.op = "create_env"
    /\ cmds # <<>>
    /\ cmds[1].returncode = 0

\* A second create_env for the same identifier, whatever its packages and
\* whatever the children would do, reports already_exists, issues no command
\* and leaves the filesystem as it is.
SecondCreateIsNoOp ==
    \A packages \in PackageLists, initChild \in Children, addChild \in Children :
        LET o == _create_env(dirs, files, call.env_id, packages, initChild, addChild)
        IN  /\ ~o.result.raised
            /\ o.result.value.status = "already_exists"
            /\ o.cmds = <<>>
            /\ o.dirs = dirs
            /\ o.files = files

\* C6 (create idempotence): from a state without the environment and with
\* init succeeding, create_env returns created, and a second create_env
\* returns already_exists, issues no command and changes nothing.
C6_CreateTwice ==
    CreatedHere => (~result.raised /\ result.value.status = "created" /\ SecondCreateIsNoOp)

\* C6 as amended: the first call returns created when no packages were passed
\* or the add command succeeded, and created_with_warning when the add command
\* failed; in both cases the second call returns already_exists, issues no
\* command and changes nothing.
C6_CreateTwiceAmended ==
    CreatedHere =>
        /\ ~result.raised
        /\ result.value.status =
              (IF Len(cmds) = 2 /\ cmds[2].returncode # 0
               THEN "created_with_warning" ELSE "created")
        /\ SecondCreateIsNoOp

C6_Witness ==
    /\ call.op = "create_env"
    /\ ~result.raised
    /\ result.value.status = "already_exists"
    /\ is_file(files, Append(CallEnv, ProjectFile))

\* What read_file returns for the file just written.
ReadBack == _read_file(dirs, files, call.env_id, call.filename).result

WroteFile == call.op = "write_file" /\ ~result.raised

RunIssued == \E i \in DOMAIN cmds : Verb(cmds[i]) = "run"
RunCmd == cmds[Len(cmds)]

\* C8 (execution outcome): execute_python returns a result only for exit code
\* 0, with the captured stdout and stderr; for a non-zero exit code it fails
\* with the execution-failed fault, which carries the exit code, the stderr
\* and whatever the child wrote to stdout.
C8_ExecutionOutcome ==
    (call.op = "execute_python" /\ RunIssued) =>
        IF RunCmd.returncode = 0
        THEN /\ ~result.raised
             /\ result.value.exit_code = 0
             /\ result.value.stdout = RunCmd.stdout
             /\ result.value.stderr = RunCmd.stderr
        ELSE /\ result.raised
             /\ result.what = "ExecutionFailed"
             /\ result.info.exit_code = RunCmd.returncode
             /\ result.info.stderr = RunCmd.stderr
             /\ RunCmd.stdout # "" =>
                    ("stdout" \in DOMAIN result.info /\ result.info.stdout = RunCmd.stdout)

\* C9 (dependency failure aborts execution): when the add command of an
\* execute_python call with packages exits non-zero, the call fails with the
\* dependency-install fault, issues no run command and leaves every file and
\* directory as it was.
C9_AddFailureAborts ==
    [][(/\ call'.op = "execute_python"
        /\ call'.packages # NoPackages
        /\ cmds' # <<>>
        /\ Verb(cmds'[1]) = "add"
        /\ cmds'[1].returncode # 0)
          => /\ result'.raised
             /\ result'.what = "DependencyInstallFailed"
             /\ \A i \in DOMAIN cmds' : Verb(cmds'[i]) # "run"
             /\ files' = files
             /\ dirs' = dirs]_vars

C9_Witness ==
    /\ call.op = "execute_python"
    /\ call.content = PlainText
    /\ result.raised
    /\ result.what = "DependencyInstallFailed"
    /\ ~is_file(files, Append(CallEnv, PyName))

\* The call failed validation: the identifier or the filename was rejected.
ValidationFailed(r) ==
    r.raised /\ (r.what = "InvalidIdentifier" \/ IsPathTraversal(r))

\* C10 (validation precedes effects): a call with an identifier and a filename
\* that fails on the identifier or on the confinement check has issued no
\* command and changed nothing on the filesystem.
C10_ValidationFirst ==
    [][(call'.op \in FileOps /\ ValidationFailed(result'))
          => /\ cmds' = <<>>
             /\ dirs' = dirs
             /\ files' = files]_vars

\* The stderr the runner makes up for a child that did not exit.
SyntheticStderr(child) ==
    IF child.kind = "timeout" THEN "Error: Command timed out after 300 seconds."
    ELSE "Error: str(e)"

\* The call went on from the command as from a child that exited with 1: the
\* fault it raised, or the warning it returned, carries the command's stderr.
HandledAsFailure(cmd) ==
    \/ result.raised /\ result.type = "RuntimeError" /\ result.info.stderr = cmd.stderr
    \/ ~result.raised /\ result.value.status = "created_with_warning"
          /\ result.value.warning = cmd.stderr

\* C11 (the runner never raises): every command a call issued came back as a
\* record with exit code, stdout and stderr: the child's own when it exited,
\* and exit code 1, empty stdout and an explanatory stderr when it timed out
\* or could not be started; in that case the handler went on as after a
\* failed command, no fault of the runner reaching it.
C11_RunnerAlwaysReturns ==
    \A i \in DOMAIN cmds :
        /\ {"returncode", "stdout", "stderr"} \subseteq DOMAIN cmds[i]
        /\ cmds[i].child.kind = "exit" =>
              /\ cmds[i].returncode = cmds[i].child.returncode
              /\ cmds[i].stdout = cmds[i].child.stdout
              /\ cmds[i].stderr = cmds[i].child.stderr
        /\ cmds[i].child.kind # "exit" =>
              /\ cmds[i].returncode = 1
              /\ cmds[i].stdout = ""
              /\ cmds[i].stderr = SyntheticStderr(cmds[i].child)
              /\ i = Len(cmds)
              /\ HandledAsFailure(cmds[i])

C11_Witness ==
    /\ call.op = "execute_python"
    /\ RunIssued
    /\ RunCmd.child = TimedOut
    /\ RunCmd.returncode = 1
    /\ result.raised
    /\ result.what = "ExecutionFailed"

\* The offsets (from 0) at which the data has a null byte.
NullOffsets(data) ==
    {i - 1 : i \in {k \in 1..Len(data.head) : data.head[k] = NUL}}
        \cup {Len(data.head) + data.pad + j - 1 :
                  j \in {k \in 1..Len(data.tail) : data.tail[k] = NUL}}

\* A read_file call that found a regular file of at most 10 MiB.
ReadSmallFile ==
    /\ call.op = "read_file"
    /\ path # NoPath
    /\ is_file(files, path)
    /\ st_size(files[path]) <= 10 * 1024 * 1024

\* C12 (read classification): read_file of an existing file of at most 10 MiB
\* returns image when the media type guessed from the extension is an image
\* type, whatever the bytes; otherwise binary when a null byte lies among the
\* first 1024 bytes; otherwise text, decoded as UTF-8 or else as Latin-1,
\* without failing.  A null byte at offset 1024 or later does not make the
\* file binary.
C12_ReadClassification ==
    ReadSmallFile =>
        /\ ~result.raised
        /\ result.value.type =
              (IF guess_type(path).major = "image" THEN "image"
               ELSE IF \E k \in NullOffsets(files[path]) : k < 1024 THEN "binary"
               ELSE "text")
        /\ result.value.type = "text" =>
              /\ len(result.value.content) <= st_size(files[path])
              /\ decode_utf8(files[path]).ok =>
                    encode_utf8(result.value.content) = files[path]
              /\ ~decode_utf8(files[path]).ok =>
                    result.value.content = decode_latin1(files[path])

C12_Witness ==
    /\ call.op = "read_file"
    /\ path # NoPath
    /\ is_file(files, path)
    /\ files[path] = LateNulBytes
    /\ ~result.raised
    /\ result.value.type = "text"

\* A read_file call whose confined path is a regular file.
ReadFile ==
    /\ call.op = "read_file"
    /\ path # NoPath
    /\ is_file(files, path)

FileTooLarge(r) == r.raised /\ r.what = "FileTooLarge"

\* C13 (size ceiling): read_file of an existing file fails with the
\* file-too-large fault exactly when the file has more than 10485760 bytes; a
\* file of exactly 10485760 bytes is returned; and the fault carries the file
\* name and the size only, nothing of the content.
C13_SizeCeiling ==
    ReadFile =>
        /\ FileTooLarge(result) <=> st_size(files[path]) > 10485760
        /\ st_size(files[path]) = 10485760 => ~result.raised
        /\ FileTooLarge(result) =>
              /\ DOMAIN result.info = {"filename", "file_size"}
              /\ result.info.file_size = st_size(files[path])

C13_Witness ==
    /\ ReadFile
    /\ st_size(files[path]) = 10485760
    /\ ~result.raised
    /\ result.value.type = "text"

NotExisting(r) == r.raised /\ r.what = "EnvironmentNotFound"

\* Every environment-scoped operation on the directory p fails as
\* not-existing in the filesystem (d, f).
ScopedOpsFail(d, f, p) ==
    \A env_id \in Ids :
        (get_env_path(env_id).ok /\ get_env_path(env_id).val = p) =>
            /\ NotExisting(_list_files(d, f, env_id).result)
            /\ NotExisting(_read_file(d, f, env_id, PyName).result)
            /\ NotExisting(_get_file_path(d, f, env_id, PyName).result)
            /\ NotExisting(_write_file(d, f, env_id, PyName, PlainText).result)
            /\ NotExisting(_execute_python(d, f, env_id, PlainText, PyName, NoPackages,
                                           TimedOut, Exited(0, "out", "")).result)
            /\ NotExisting(_install_packages(d, f, env_id, SomePackages, Exited(0, "", "")).result)
            /\ NotExisting(_list_packages(d, f, env_id, Exited(0, "[]", "")).result)

\* C14 (delete): delete_env on an existing environment removes its directory
\* with everything below it, leaves the rest alone and returns deleted;
\* delete_env on an accepted identifier without environment fails with the
\* not-found fault and changes nothing; and as long as no create_env for a
\* deleted directory has returned, the directory is absent and every
\* environment-scoped operation on it fails as not-existing.
C14_Delete ==
    [][/\ (call'.op = "delete_env" /\ get_env_path(call'.env_id).ok) =>
             LET env_path == get_env_path(call'.env_id).val
             IN  IF is_dir(dirs, env_path)
                 THEN /\ result' = Return([status |-> "deleted", env_id |-> call'.env_id])
                      /\ dirs' = {q \in dirs : ~IsWithin(env_path, q)}
                      /\ DOMAIN files' = {q \in DOMAIN files : ~IsWithin(env_path, q)}
                      /\ \A q \in DOMAIN files' : files'[q] = files[q]
                 ELSE /\ result'.raised
                      /\ result'.type = "ValueError"
                      /\ result'.what = "EnvironmentNotFound"
                      /\ dirs' = dirs
                      /\ files' = files
       /\ \A p \in deleted' :
             /\ ~exists(dirs', files', p)
             /\ ScopedOpsFail(dirs', files', p)]_vars

\* What list_envs returns in the filesystem (d, f), and the set of its members.
Listed(d, f) == _list_envs(d, f).result.value.environments
ListedSet(d, f) == {Listed(d, f)[i] : i \in DOMAIN Listed(d, f)}

Ascending(names) ==
    \A i \in DOMAIN names : \A j \in DOMAIN names : i < j => str_lt(names[i], names[j])

CreationSucceeded(r) ==
    ~r.raised /\ r.value.status \in {"created", "created_with_warning"}

\* C15 (list_envs reflects the lifecycle): the list is empty at the start and
\* always ascending; a create_env call that succeeds adds the identifier the
\* caller passed to it, a delete_env call that succeeds removes the identifier
\* the caller passed, and a create_env or delete_env call that does neither
\* leaves the list as it was; the list is empty when the environments root is
\* absent.
C15_ListEnvsLifecycle ==
    [][/\ Ascending(Listed(dirs', files'))
       /\ ~exists(dirs', files', ENVS_DIR) => Listed(dirs', files') = <<>>
       /\ call'.op = "create_env" =>
             IF CreationSucceeded(result')
             THEN ListedSet(dirs', files') = ListedSet(dirs, files) \cup {call'.env_id}
             ELSE Listed(dirs', files') = Listed(dirs, files)
       /\ call'.op = "delete_env" =>
             IF ~result'.raised
             THEN /\ call'.env_id \in ListedSet(dirs, files)
                  /\ ListedSet(dirs', files') = ListedSet(dirs, files) \ {call'.env_id}
             ELSE Listed(dirs', files') = Listed(dirs, files)]_vars

\* The characters of [A-Za-z0-9_-] among those of the model.
AsciiIdChar(c) == c \in {"a", "b", "1", "-", "_"}

\* C16 (identifier sanitization): get_env_path fails with the
\* invalid-identifier fault exactly when the identifier has no character of
\* [A-Za-z0-9_-]; otherwise it returns the environments root joined with the
\* identifier's characters of [A-Za-z0-9_-], in their order, and nothing else;
\* either way it creates nothing on the filesystem.
C16_Sanitization ==
    [][call'.op = "get_env_path" =>
          /\ (result'.raised /\ result'.what = "InvalidIdentifier")
                <=> SelectSeq(call'.env_id, AsciiIdChar) = <<>>
          /\ ~result'.raised =>
                result'.value = Append(ENVS_DIR, SelectSeq(call'.env_id, AsciiIdChar))
          /\ dirs' = dirs
          /\ files' = files]_vars

PartitionedOps ==
    {"create_env", "write_file", "read_file", "get_file_path", "list_files",
     "delete_env", "execute_python"}

\* The directories and the files of the filesystem (d, f) at or below p.
DirsBelow(d, p) == {q \in d : IsWithin(p, q)}
FilesBelow(f, p) == [q \in {r \in DOMAIN f : IsWithin(p, r)} |-> f[q]]

\* C17 (partition by identifier): a call addressed to one environment leaves
\* the directories and the files of every other environment as they were,
\* and only create_env makes a new directory appear directly under the
\* environments root.
C17_Partition ==
    [][(call'.op \in PartitionedOps /\ get_env_path(call'.env_id).ok) =>
          /\ \A name \in env_names(dirs) \cup env_names(dirs') :
                Append(ENVS_DIR, name) # get_env_path(call'.env_id).val =>
                    /\ DirsBelow(dirs', Append(ENVS_DIR, name))
                          = DirsBelow(dirs, Append(ENVS_DIR, name))
                    /\ FilesBelow(files', Append(ENVS_DIR, name))
                          = FilesBelow(files, Append(ENVS_DIR, name))
          /\ call'.op # "create_env" => env_names(dirs') \subseteq env_names(dirs)]_vars

\* An execute_python step with code, on an accepted identifier whose
\* environment directory does not exist.
ExecutesOnMissing ==
    /\ call'.op = "execute_python"
    /\ len(call'.content) > 0
    /\ get_env_path(call'.env_id).ok
    /\ ~exists(dirs, files, get_env_path(call'.env_id).val)

\* C18 (lazy initialization): execute_python with code on an identifier
\* whose environment directory does not exist creates the environment, runs
\* the code and, when the run exits with 0, returns its stdout; the directory
\* exists after the call.
C18_LazyInitialization ==
    [][ExecutesOnMissing =>
          /\ exists(dirs', files', get_env_path(call'.env_id).val)
          /\ cmds' # <<>>
          /\ Verb(cmds'[Len(cmds')]) = "run"
          /\ cmds'[Len(cmds')].returncode = 0 =>
                (~result'.raised /\ result'.value.stdout = cmds'[Len(cmds')].stdout)]_vars

\* A create_env call whose "uv init" exited with 0 and whose add command came
\* back with a non-zero exit code.
SeedingFailed ==
    /\ call.op = "create_env"
    /\ Len(cmds) = 2
    /\ Verb(cmds[1]) = "init"
    /\ cmds[1].returncode = 0
    /\ Verb(cmds[2]) = "add"
    /\ cmds[2].returncode # 0

\* C19 (dependency seeding is a soft failure): such a call does not fail; it
\* returns created_with_warning with the add command's stderr as the warning,
\* the environment directory is kept with what "uv init" left in it, and a
\* following create_env for the identifier returns already_exists.
C19_SoftSeedingFailure ==
    SeedingFailed =>
        /\ ~result.raised
        /\ result.value.status = "created_with_warning"
        /\ result.value.env_id = call.env_id
        /\ result.value.warning = cmds[2].stderr
        /\ is_dir(dirs, CallEnv)
        /\ is_file(files, Append(CallEnv, ProjectFile))
        /\ \A packages \in PackageLists, initChild \in Children, addChild \in Children :
              LET o == _create_env(dirs, files, call.env_id, packages, initChild, addChild)
              IN  ~o.result.raised /\ o.result.value.status = "already_exists"

C19_Witness ==
    /\ SeedingFailed
    /\ cmds[2].child = Exited(2, "out", "err")
    /\ ~result.raised
    /\ result.value.warning = "err"
    /\ is_dir(dirs, CallEnv)

\* The number of components of a relative path string.
Depth(name) == Len(SelectSeq(name, LAMBDA c : c = "/")) + 1

\* The regular files below the directory root that list_files is to show.
Listable(root) ==
    {p \in DOMAIN files :
        /\ IsWithin(root, p)
        /\ p # root
        /\ \A i \in (Len(root) + 1)..Len(p) :
              p[i] # <<".", "v", "e", "n", "v">> /\ p[i] # <<".", "g", "i", "t">>}

\* C20 (file listing): list_files returns each regular file below the
\* environment root once, as its path relative to the root, leaving out the
\* files with a ".venv" or ".git" component; paths of fewer components come
\* first and paths of the same depth are in string order, so a nested file
\* comes after every root-level file.
C20_ListFiles ==
    (call.op = "list_files" /\ ~result.raised) =>
        LET names == result.value.files
        IN  /\ {names[i] : i \in DOMAIN names}
                  = {relative_str(CallEnv, p) : p \in Listable(CallEnv)}
            /\ Len(names) = Cardinality(Listable(CallEnv))
            /\ \A i \in DOMAIN names : \A j \in DOMAIN names :
                  i < j =>
                      \/ Depth(names[i]) < Depth(names[j])
                      \/ Depth(names[i]) = Depth(names[j]) /\ str_lt(names[i], names[j])

C20_Witness ==
    /\ call.op = "list_files"
    /\ ~result.raised
    /\ is_file(files, Append(CallEnv, <<".", "g", "i", "t">>) \o << <<"c">> >>)
    /\ result.value.files
          = <<PyName, ProjectFile, TopName, SubName, DeepName>>

Stripped == {"VIRTUAL_ENV", "PYTHONPATH", "PYTHONHOME"}

\* C21 (process-environment isolation): every command a call issues runs
\* with the server's environment of that moment less VIRTUAL_ENV, PYTHONPATH
\* and PYTHONHOME: none of the three is passed, every other variable is
\* passed with its value; and the call leaves the server's own environment
\* as it was.
C21_EnvironmentIsolation ==
    [][/\ \A i \in DOMAIN cmds' :
             /\ DOMAIN cmds'[i].env = DOMAIN environ \ Stripped
             /\ \A v \in DOMAIN cmds'[i].env : cmds'[i].env[v] = environ[v]
       /\ environ' = environ]_vars

C21_Witness ==
    /\ call.op = "install_packages"
    /\ cmds # <<>>
    /\ DOMAIN environ = EnvNames
    /\ environ["PATH"] = "/usr/bin"
    /\ cmds[1].env = [v \in {"PATH", "PYTHONUNBUFFERED"} |-> environ[v]]

\* An execute_python step that passed the existence test, the packages step
\* and the confinement guard.
ExecutesFile == call'.op = "execute_python" /\ path' # NoPath

NoRunIssued(c) == \A i \in DOMAIN c : Verb(c[i]) # "run"

\* With empty code nothing is written, and a missing file fails the call
\* with file-not-found before any run command.
EmptyCodeLeavesFile ==
    len(call'.content) = 0 =>
        /\ files' = files
        /\ dirs' = dirs
        /\ ~exists(dirs, files, path') =>
              /\ result'.raised
              /\ result'.what = "FileNotFound"
              /\ NoRunIssued(cmds')

\* C22 (file handling in execute_python): with non-empty code the target
\* file holds exactly that code once the call ends, whatever the run does;
\* with empty code no file is modified, and when the file does not exist the
\* call fails with file-not-found and issues no run command.
C22_ExecuteFileHandling ==
    [][ExecutesFile =>
          /\ len(call'.content) > 0 =>
                (is_file(files', path') /\ files'[path'] = encode_utf8(call'.content))
          /\ EmptyCodeLeavesFile]_vars

\* The target can be written: it is no directory and no regular file lies
\* among its parents.
TargetWritable ==
    /\ ~is_dir(dirs, path')
    /\ \A q \in Prefixes(parent(path')) : q \notin DOMAIN files

\* C22 as amended: with non-empty code the target file holds exactly that
\* code once the call ends when the target is no directory and no regular
\* file lies among its parents; otherwise the call fails with the fault of
\* the write, issues no run command and changes nothing.  The part on empty
\* code is as claimed.
C22_ExecuteFileHandlingAmended ==
    [][ExecutesFile =>
          /\ len(call'.content) > 0 =>
                IF TargetWritable
                THEN is_file(files', path') /\ files'[path'] = encode_utf8(call'.content)
                ELSE /\ result'.raised
                     /\ result'.type \in {"FileExistsError", "IsADirectoryError"}
                     /\ NoRunIssued(cmds')
                     /\ files' = files
                     /\ dirs' = dirs
          /\ EmptyCodeLeavesFile]_vars

C22_Witness ==
    /\ call.op = "execute_python"
    /\ call.filename = SubName
    /\ call.content = AccentText
    /\ result.raised
    /\ result.what = "ExecutionFailed"
    /\ is_file(files, path)
    /\ files[path] = encode_utf8(AccentText)

\* No call is under way.
AllReturned == \A p \in Callers : procs[p].pc \in {"idle", "done"}

ReportedPresent(p) ==
    /\ procs[p].op = "create_env"
    /\ procs[p].pc = "done"
    /\ ~procs[p].result.raised
    /\ procs[p].result.value.status \in {"created", "created_with_warning", "already_exists"}

\* C23 (concurrent creation of one identifier): once all of the create_env
\* calls for the identifier have returned, if any of them returned created,
\* created_with_warning or already_exists, the environment directory exists
\* and holds what a successful initialization leaves; no call's rollback has
\* removed an environment another call reported.
C23_ConcurrentCreate ==
    (AllReturned /\ \E p \in Callers : ReportedPresent(p)) =>
        /\ is_dir(dirs, RacePath)
        /\ is_file(files, Append(RacePath, ProjectFile))

ReportedDeleted(p) ==
    /\ procs[p].op = "delete_env"
    /\ procs[p].pc = "done"
    /\ ~procs[p].result.raised
    /\ procs[p].result.value.status = "deleted"

\* C24 (delete versus concurrent write): once delete_env has returned deleted
\* and the write_file or execute_python call on the same identifier has
\* finished, no create_env having been issued, the environment directory does
\* not exist: a writer that passed its existence test before the deletion
\* has not brought the directory back.
C24_DeleteVersusWrite ==
    (AllReturned /\ \E p \in Callers : ReportedDeleted(p)) =>
        ~exists(dirs, files, RacePath)

====
